---- MODULE Spec2Model ----
(***************************************************************************)
(* Model of src/src/bin/run-tests.rs: the differential-testing engine.     *)
(* One walker thread, CONCURRENCY tester threads, one dashboard (tui)      *)
(* thread and the top level (main, inside thread::scope) share             *)
(*   - the mpmc channel paths_sender / paths_receiver,                     *)
(*   - the mutex-guarded in_progress map, dones list and stopping flag.    *)
(***************************************************************************)
EXTENDS Integers, Sequences, FiniteSets, TLC

\* ----------------------------------------------------------------- bounds
\* Number of version directories the corpus under repos/ holds.
NumDirs == 3

\* Number of tester threads (const CONCURRENCY, scaled down from 10).
CONCURRENCY == 2

Dirs == 1..NumDirs
Testers == 1..CONCURRENCY

NoPath == 0

\* ------------------------------------------------------------- data model
\* enum RunResult { Finished(bool), TimedOut }
FinishedTrue == "Finished(true)"
FinishedFalse == "Finished(false)"
TimedOut == "TimedOut"
RunResult == {FinishedTrue, FinishedFalse, TimedOut}

\* The Err(Error) value of a Result.
ErrResult == [ok |-> FALSE]

\* What the external test-runner process of one variant does:
\*   exit0 / exit1   exits within the timeout with success / failure
\*   hang            still running when the timeout expires; kill and wait succeed
\*   spawn_err       spawn() (or removing elm-stuff, or wait_timeout) returns Err
\*   kill_err        still running at the timeout, and kill() or wait() returns Err
ProcBehaviour == {"exit0", "exit1", "hang", "spawn_err", "kill_err"}

\* Mutant of run_tests_with: a variant that cannot be run counts as a failed
\* test run instead of an error.
run_tests_with_SwallowError(b) ==
    CASE b = "exit0" -> [ok |-> TRUE, val |-> FinishedTrue]
      [] b = "exit1" -> [ok |-> TRUE, val |-> FinishedFalse]
      [] b = "hang" -> [ok |-> TRUE, val |-> TimedOut]
      [] OTHER -> [ok |-> TRUE, val |-> FinishedFalse]

\* run_tests_with: the outcome of one variant run (Ok(RunResult) or Err).
run_tests_with(b) ==
    CASE b = "exit0" -> [ok |-> TRUE, val |-> FinishedTrue]
      [] b = "exit1" -> [ok |-> TRUE, val |-> FinishedFalse]
      [] b = "hang" -> [ok |-> TRUE, val |-> TimedOut]
      [] OTHER -> ErrResult

\* check_tests_for for a V1 manifest: three runs, each followed by `?`.
check_tests_for_V1(procs) ==
    LET elm_result == run_tests_with(procs[1])
        lamdera_stable_no_wire_result == run_tests_with(procs[2])
        lamdera_stable_result == run_tests_with(procs[3])
    IN  IF ~elm_result.ok THEN ErrResult
        ELSE IF ~lamdera_stable_no_wire_result.ok THEN ErrResult
        ELSE IF ~lamdera_stable_result.ok THEN ErrResult
        ELSE [ok |-> TRUE,
              val |-> [version |-> "V1",
                       elm_result |-> elm_result.val,
                       lamdera_stable_no_wire_result |-> lamdera_stable_no_wire_result.val,
                       lamdera_stable_result |-> lamdera_stable_result.val]]

\* check_tests_for for a V2 manifest: five runs, each followed by `?`.
check_tests_for_V2(procs) ==
    LET elm_result == run_tests_with(procs[1])
        lamdera_stable_no_wire_result == run_tests_with(procs[2])
        lamdera_stable_result == run_tests_with(procs[3])
        lamdera_next_no_wire_result == run_tests_with(procs[4])
        lamdera_next_result == run_tests_with(procs[5])
    IN  IF ~elm_result.ok THEN ErrResult
        ELSE IF ~lamdera_stable_no_wire_result.ok THEN ErrResult
        ELSE IF ~lamdera_stable_result.ok THEN ErrResult
        ELSE IF ~lamdera_next_no_wire_result.ok THEN ErrResult
        ELSE IF ~lamdera_next_result.ok THEN ErrResult
        ELSE [ok |-> TRUE,
              val |-> [version |-> "V2",
                       elm_result |-> elm_result.val,
                       lamdera_stable_no_wire_result |-> lamdera_stable_no_wire_result.val,
                       lamdera_stable_result |-> lamdera_stable_result.val,
                       lamdera_next_no_wire_result |-> lamdera_next_no_wire_result.val,
                       lamdera_next_result |-> lamdera_next_result.val]]

\* check_tests_for: read elm.json (Err when unreadable), detect the elm-test
\* version, run the variants of that version in order.
check_tests_for(env) ==
    IF env.manifest = "unreadable" THEN ErrResult
    ELSE IF env.manifest = "V1" THEN check_tests_for_V1(env.procs)
    ELSE check_tests_for_V2(env.procs)

\* The variants check_tests_for runs for a manifest, in order.
NumVariants(manifest) == IF manifest = "V1" THEN 3 ELSE 5

\* An environment in which the call meets an I/O failure: elm.json cannot be
\* read, or one of the runs the manifest requires fails outside the process.
HasIoError(e) ==
    \/ e.manifest = "unreadable"
    \/ \E k \in 1..NumVariants(e.manifest) : e.procs[k] \in {"spawn_err", "kill_err"}

\* The corpus: what the checkout of target t holds when its runner succeeds.
\* Odd targets depend on elm-explorations/test 2 and their reference run
\* fails while one fork run hangs; even targets depend on version 1 and pass.
CorpusEnv(t) ==
    IF t % 2 = 1
      THEN [manifest |-> "V2", procs |-> <<"exit1", "exit0", "exit0", "hang", "exit0">>]
      ELSE [manifest |-> "V1", procs |-> <<"exit0", "exit0", "exit0", "exit0", "exit0">>]

\* I/O failures that can hit any call: elm.json unreadable, a compiler that
\* cannot be spawned, a kill() or wait() that fails after a timeout.
FailingEnvs ==
    { [manifest |-> "unreadable", procs |-> <<"exit0", "exit0", "exit0", "exit0", "exit0">>],
      [manifest |-> "V2", procs |-> <<"exit0", "hang", "spawn_err", "exit0", "exit0">>],
      [manifest |-> "V1", procs |-> <<"hang", "exit0", "kill_err", "exit0", "exit0">>] }

\* The environments a call of check_tests_for on target t can be run in: the
\* content of elm.json and the behaviour of the five variant processes.
Envs(t) == {CorpusEnv(t)} \cup FailingEnvs

\* ------------------------------------------------------------------ state
VARIABLES
    stopping,       \* Mutex<bool> stopping
    queue,          \* targets in the mpmc channel, head first
    sender_open,    \* paths_sender not yet dropped
    in_progress,    \* keys of the HashMap<PathBuf, Instant> in_progress
    dones,          \* Vec<Done> dones
    holder,         \* holder[m]: the thread holding mutex m across steps
    walker_pc,      \* position of the walker thread
    walker_next,    \* index of the version directory walk_path visits next
    walker_res,     \* result of the walker thread
    pc,             \* pc[w]: position of tester w
    version_root,   \* version_root[w]: the target tester w received
    results,        \* results[w]: what check_tests_for returned to tester w
    tester_res,     \* tester_res[w]: result of tester thread w
    tui_pc,         \* position of the dashboard thread
    tui_res,        \* result of the dashboard thread
    terminal,       \* "initial", "tui" (ratatui::init) or "restored"
    frame,          \* the done table on the dashboard's screen
    main_pc,        \* position of the top level
    joined,         \* number of testers the top level has joined
    main_res,       \* what main returns
    console,        \* lines the top level printed
    sent,           \* history: targets the walker sent, in order
    recv_count,     \* history: recv_count[t] = times target t was received
    io_failed,      \* history: targets whose runner call met an I/O failure
    runner_pc,      \* position inside one call of check_tests_for
    elm_json_content, \* what reading elm.json yields: "V1", "V2" or "unreadable"
    elm_stuff,      \* the elm-stuff cache directory of the checkout exists
    variant,        \* index of the compiler run_tests_with is running
    children,       \* the child processes the call spawned, in spawn order
    outcomes,       \* the RunResult of each variant that produced one
    runner_res,     \* what the call returned: "none", "ok" or "err"
    repos,          \* the directory tree under repos/: its version directories
    walk_pc,        \* position of walk_path inside its three nested loops
    author_roots,   \* entries of repos/ the outer loop has not visited yet
    package_roots,  \* entries of the author directory not visited yet
    version_roots,  \* entries of the package directory not visited yet
    table_dones,    \* a list of completed entries, in storage order
    table_list,     \* view's local done_list built from it
    table_pc,       \* how far view has got with done_list
    table_csv       \* what export wrote for it

vars == <<stopping, queue, sender_open, in_progress, dones, holder,
          walker_pc, walker_next, walker_res,
          pc, version_root, results, tester_res,
          tui_pc, tui_res, terminal, frame,
          main_pc, joined, main_res, console, sent, recv_count, io_failed,
          runner_pc, elm_json_content, elm_stuff, variant, children, outcomes,
          runner_res,
          repos, walk_pc, author_roots, package_roots, version_roots,
          table_dones, table_list, table_pc, table_csv>>

shared_vars == <<stopping, queue, sender_open, in_progress, dones, holder>>
walker_vars == <<walker_pc, walker_next, walker_res>>
tester_vars == <<pc, version_root, results, tester_res>>
tui_vars == <<tui_pc, tui_res, terminal, frame>>
main_vars == <<main_pc, joined, main_res, console>>
history_vars == <<sent, recv_count, io_failed>>
engine_vars == <<shared_vars, walker_vars, tester_vars, tui_vars, main_vars, history_vars>>
runner_vars == <<runner_pc, elm_json_content, elm_stuff, variant, children, outcomes,
                 runner_res>>
walk_vars == <<repos, walk_pc, author_roots, package_roots, version_roots>>
table_vars == <<table_dones, table_list, table_pc, table_csv>>
\* The variables of the component specifications (RunnerSpec, WalkSpec,
\* TableSpec): the engine leaves them alone.
component_vars == <<runner_vars, walk_vars, table_vars>>

\* No call of check_tests_for is being followed step by step.
RunnerIdle ==
    /\ runner_pc = "idle"
    /\ elm_json_content = "unreadable"
    /\ elm_stuff = FALSE
    /\ variant = 0
    /\ children = <<>>
    /\ outcomes = <<>>
    /\ runner_res = "none"

\* The tree under repos/ is not being followed directory by directory.
WalkIdle ==
    /\ repos = <<>>
    /\ walk_pc = "idle"
    /\ author_roots = <<>>
    /\ package_roots = <<>>
    /\ version_roots = <<>>

\* No list of completed entries is being sorted or exported on its own.
TableIdle ==
    /\ table_dones = <<>>
    /\ table_list = <<>>
    /\ table_pc = "idle"
    /\ table_csv = [written |-> FALSE, records |-> <<>>]

\* The state main builds before it spawns the threads.
EngineInit ==
    /\ stopping = FALSE
    /\ queue = <<>>
    /\ sender_open = TRUE
    /\ in_progress = {}
    /\ dones = <<>>
    /\ holder = [m \in {"in_progress", "dones"} |-> "none"]
    /\ walker_pc = "poll"
    /\ walker_next = 1
    /\ walker_res = "none"
    /\ pc = [w \in Testers |-> "check"]
    /\ version_root = [w \in Testers |-> NoPath]
    /\ results = [w \in Testers |-> ErrResult]
    /\ tester_res = [w \in Testers |-> "none"]
    /\ tui_pc = "install"
    /\ tui_res = "none"
    /\ terminal = "initial"
    /\ frame = <<>>
    /\ main_pc = "join_tui"
    /\ joined = 0
    /\ main_res = "none"
    /\ console = <<>>
    /\ sent = <<>>
    /\ recv_count = [t \in Dirs |-> 0]
    /\ io_failed = {}

Init == EngineInit /\ RunnerIdle /\ WalkIdle /\ TableIdle

\* ----------------------------------------------------------------- walker
\* Mutant of WalkerReturn: the walker returns without dropping paths_sender.
WalkerReturn_KeepSender(res) ==
    /\ walker_pc' = "done"
    /\ walker_res' = res
    /\ sender_open' = sender_open

\* The walker thread returns: drop(paths_sender) closes the channel.
WalkerReturn(res) ==
    /\ walker_pc' = "done"
    /\ walker_res' = res
    /\ sender_open' = FALSE

\* walk_path: the three nested loops are exhausted.
WalkerExhausted ==
    /\ walker_pc = "poll"
    /\ walker_next > NumDirs
    /\ WalkerReturn("ok")
    /\ UNCHANGED <<stopping, queue, in_progress, dones, holder, walker_next>>
    /\ UNCHANGED <<tester_vars, tui_vars, main_vars, history_vars, component_vars>>

\* walk_path: read_dir(...)? fails on the way to the next version directory.
WalkerReadDirErr ==
    /\ walker_pc = "poll"
    /\ walker_next <= NumDirs
    /\ WalkerReturn("err")
    /\ UNCHANGED <<stopping, queue, in_progress, dones, holder, walker_next>>
    /\ UNCHANGED <<tester_vars, tui_vars, main_vars, history_vars, component_vars>>

\* Mutant of WalkerPoll: the walker goes on to the directory whatever the flag.
WalkerPoll_IgnoreFlag ==
    /\ walker_pc = "poll"
    /\ walker_next <= NumDirs
    /\ walker_pc' = "visit"
    /\ UNCHANGED <<walker_res, sender_open>>
    /\ UNCHANGED <<stopping, queue, in_progress, dones, holder, walker_next>>
    /\ UNCHANGED <<tester_vars, tui_vars, main_vars, history_vars, component_vars>>

\* walk_path: if *stopping.lock() { return Ok(()) }
WalkerPoll ==
    /\ walker_pc = "poll"
    /\ walker_next <= NumDirs
    /\ IF stopping
         THEN /\ WalkerReturn("ok")
         ELSE /\ walker_pc' = "visit"
              /\ UNCHANGED <<walker_res, sender_open>>
    /\ UNCHANGED <<stopping, queue, in_progress, dones, holder, walker_next>>
    /\ UNCHANGED <<tester_vars, tui_vars, main_vars, history_vars, component_vars>>

\* walk_path: if tests.exists() && elm_json.exists() { paths_sender.send(..)? }
\* The receiver outlives the scope, so send never fails.
WalkerVisit ==
    /\ walker_pc = "visit"
    /\ \E qualifies \in BOOLEAN :
         IF qualifies
           THEN /\ queue' = Append(queue, walker_next)
                /\ sent' = Append(sent, walker_next)
           ELSE UNCHANGED <<queue, sent>>
    /\ walker_next' = walker_next + 1
    /\ walker_pc' = "poll"
    /\ UNCHANGED <<stopping, sender_open, in_progress, dones, holder, walker_res>>
    /\ UNCHANGED <<tester_vars, tui_vars, main_vars, recv_count, io_failed, component_vars>>

Walker == WalkerExhausted \/ WalkerReadDirErr \/ WalkerPoll \/ WalkerVisit

\* ---------------------------------------------------------------- testers
\* A tester thread returns (return Ok(()) or the `?` on results).
TesterReturn(w, res) ==
    /\ pc' = [pc EXCEPT ![w] = "done"]
    /\ tester_res' = [tester_res EXCEPT ![w] = res]

\* Mutant of TesterCheck: the tester goes on to recv whatever the flag says.
TesterCheck_IgnoreFlag(w) ==
    /\ pc[w] = "check"
    /\ pc' = [pc EXCEPT ![w] = "recv"]
    /\ UNCHANGED tester_res
    /\ UNCHANGED <<version_root, results>>
    /\ UNCHANGED <<shared_vars, walker_vars, tui_vars, main_vars, history_vars, component_vars>>

\* tester: if *stopping.lock() { return Ok(()) }
TesterCheck(w) ==
    /\ pc[w] = "check"
    /\ IF stopping
         THEN TesterReturn(w, "ok")
         ELSE /\ pc' = [pc EXCEPT ![w] = "recv"]
              /\ UNCHANGED tester_res
    /\ UNCHANGED <<version_root, results>>
    /\ UNCHANGED <<shared_vars, walker_vars, tui_vars, main_vars, history_vars, component_vars>>

\* Mutant of paths_receiver_recv: the head is handed out but stays queued.
paths_receiver_recv_Peek(w) ==
    IF queue # <<>>
      THEN /\ version_root' = [version_root EXCEPT ![w] = Head(queue)]
           /\ queue' = queue
           /\ recv_count' = [recv_count EXCEPT ![Head(queue)] = @ + 1]
           /\ pc' = [pc EXCEPT ![w] = "insert"]
           /\ UNCHANGED tester_res
      ELSE /\ ~sender_open
           /\ TesterReturn(w, "ok")
           /\ UNCHANGED <<version_root, queue, recv_count>>

\* mpmc::Receiver::recv: blocks while the channel is empty and a sender is
\* alive; takes the head when there is one; Err(RecvError) when the channel
\* is empty and disconnected.
paths_receiver_recv(w) ==
    IF queue # <<>>
      THEN /\ version_root' = [version_root EXCEPT ![w] = Head(queue)]
           /\ queue' = Tail(queue)
           /\ recv_count' = [recv_count EXCEPT ![Head(queue)] = @ + 1]
           /\ pc' = [pc EXCEPT ![w] = "insert"]
           /\ UNCHANGED tester_res
      ELSE /\ ~sender_open
           /\ TesterReturn(w, "ok")
           /\ UNCHANGED <<version_root, queue, recv_count>>

\* Mutant of TesterRecv: Err(RecvError) is propagated as the tester's error.
TesterRecv_RecvErrorIsFatal(w) ==
    /\ pc[w] = "recv"
    /\ IF queue # <<>>
         THEN /\ version_root' = [version_root EXCEPT ![w] = Head(queue)]
              /\ queue' = Tail(queue)
              /\ recv_count' = [recv_count EXCEPT ![Head(queue)] = @ + 1]
              /\ pc' = [pc EXCEPT ![w] = "insert"]
              /\ UNCHANGED tester_res
         ELSE /\ ~sender_open
              /\ TesterReturn(w, "err")
              /\ UNCHANGED <<version_root, queue, recv_count>>
    /\ UNCHANGED results
    /\ UNCHANGED <<stopping, sender_open, in_progress, dones, holder>>
    /\ UNCHANGED <<walker_vars, tui_vars, main_vars, sent, io_failed, component_vars>>

\* tester: match paths_receiver.recv() { Ok(v) => v, Err(RecvError) => return Ok(()) }
TesterRecv(w) ==
    /\ pc[w] = "recv"
    /\ paths_receiver_recv(w)
    /\ UNCHANGED results
    /\ UNCHANGED <<stopping, sender_open, in_progress, dones, holder>>
    /\ UNCHANGED <<walker_vars, tui_vars, main_vars, sent, io_failed, component_vars>>

\* tester: in_progress.lock().insert(version_root.clone(), start)
TesterInsert(w) ==
    /\ pc[w] = "insert"
    /\ holder["in_progress"] = "none"
    /\ in_progress' = in_progress \cup {version_root[w]}
    /\ pc' = [pc EXCEPT ![w] = "run"]
    /\ UNCHANGED <<version_root, results, tester_res>>
    /\ UNCHANGED <<stopping, queue, sender_open, dones, holder>>
    /\ UNCHANGED <<walker_vars, tui_vars, main_vars, history_vars, component_vars>>

\* tester: let results = check_tests_for(&compilers, &version_root)
TesterRun(w) ==
    /\ pc[w] = "run"
    /\ \E e \in Envs(version_root[w]) :
         /\ results' = [results EXCEPT ![w] = check_tests_for(e)]
         /\ io_failed' = IF HasIoError(e) THEN io_failed \cup {version_root[w]}
                         ELSE io_failed
    /\ pc' = [pc EXCEPT ![w] = "remove"]
    /\ UNCHANGED <<version_root, tester_res>>
    /\ UNCHANGED <<shared_vars, walker_vars, tui_vars, main_vars, sent, recv_count, component_vars>>

\* Mutant of TesterRemove: the entry is removed only when the runner succeeded.
TesterRemove_OnlyOnSuccess(w) ==
    /\ pc[w] = "remove"
    /\ holder["in_progress"] = "none"
    /\ in_progress' = IF results[w].ok THEN in_progress \ {version_root[w]}
                      ELSE in_progress
    /\ pc' = [pc EXCEPT ![w] = "push"]
    /\ UNCHANGED <<version_root, results, tester_res>>
    /\ UNCHANGED <<stopping, queue, sender_open, dones, holder>>
    /\ UNCHANGED <<walker_vars, tui_vars, main_vars, history_vars, component_vars>>

\* Mutant of TesterRemove: the entry is left in the map.
TesterRemove_KeepEntry(w) ==
    /\ pc[w] = "remove"
    /\ holder["in_progress"] = "none"
    /\ in_progress' = in_progress
    /\ pc' = [pc EXCEPT ![w] = "push"]
    /\ UNCHANGED <<version_root, results, tester_res>>
    /\ UNCHANGED <<stopping, queue, sender_open, dones, holder>>
    /\ UNCHANGED <<walker_vars, tui_vars, main_vars, history_vars, component_vars>>

\* tester: in_progress.lock().remove(&version_root)
TesterRemove(w) ==
    /\ pc[w] = "remove"
    /\ holder["in_progress"] = "none"
    /\ in_progress' = in_progress \ {version_root[w]}
    /\ pc' = [pc EXCEPT ![w] = "push"]
    /\ UNCHANGED <<version_root, results, tester_res>>
    /\ UNCHANGED <<stopping, queue, sender_open, dones, holder>>
    /\ UNCHANGED <<walker_vars, tui_vars, main_vars, history_vars, component_vars>>

\* tester: let results = results?;  (the Err case: the thread returns it)
TesterPropagate(w) ==
    /\ pc[w] = "push"
    /\ ~results[w].ok
    /\ TesterReturn(w, "err")
    /\ version_root' = [version_root EXCEPT ![w] = NoPath]
    /\ UNCHANGED results
    /\ UNCHANGED <<shared_vars, walker_vars, tui_vars, main_vars, history_vars, component_vars>>

\* Mutant of TesterPush: the new entry replaces the list instead of being
\* appended to it.
TesterPush_Overwrite(w) ==
    /\ pc[w] = "push"
    /\ results[w].ok
    /\ holder["dones"] = "none"
    /\ dones' = <<[path |-> version_root[w], results |-> results[w].val]>>
    /\ pc' = [pc EXCEPT ![w] = "check"]
    /\ version_root' = [version_root EXCEPT ![w] = NoPath]
    /\ results' = [results EXCEPT ![w] = ErrResult]
    /\ UNCHANGED tester_res
    /\ UNCHANGED <<stopping, queue, sender_open, in_progress, holder>>
    /\ UNCHANGED <<walker_vars, tui_vars, main_vars, history_vars, component_vars>>

\* tester: dones.lock().push(Done { path: version_root, time, results })
TesterPush(w) ==
    /\ pc[w] = "push"
    /\ results[w].ok
    /\ holder["dones"] = "none"
    /\ dones' = Append(dones, [path |-> version_root[w], results |-> results[w].val])
    /\ pc' = [pc EXCEPT ![w] = "check"]
    /\ version_root' = [version_root EXCEPT ![w] = NoPath]
    /\ results' = [results EXCEPT ![w] = ErrResult]
    /\ UNCHANGED tester_res
    /\ UNCHANGED <<stopping, queue, sender_open, in_progress, holder>>
    /\ UNCHANGED <<walker_vars, tui_vars, main_vars, history_vars, component_vars>>

Tester(w) ==
    \/ TesterCheck(w)
    \/ TesterRecv(w)
    \/ TesterInsert(w)
    \/ TesterRun(w)
    \/ TesterRemove(w)
    \/ TesterPropagate(w)
    \/ TesterPush(w)

\* -------------------------------------------------------------- dashboard
\* Mutant of sort_key: the arms of the failures come before those of the
\* timeouts.
sort_key_FailureBeforeTimeout(r) ==
    IF r.version = "V2" /\ r.elm_result # r.lamdera_stable_no_wire_result THEN 0
    ELSE IF r.version = "V2" /\ r.elm_result # r.lamdera_next_no_wire_result THEN 1
    ELSE IF r.version = "V1" /\ r.elm_result # r.lamdera_stable_no_wire_result THEN 2
    ELSE IF r.version = "V2" /\ r.lamdera_stable_no_wire_result # r.lamdera_stable_result THEN 3
    ELSE IF r.version = "V2" /\ r.lamdera_next_no_wire_result # r.lamdera_next_result THEN 4
    ELSE IF r.version = "V1" /\ r.lamdera_stable_no_wire_result # r.lamdera_stable_result THEN 5
    ELSE IF r.version = "V2" /\ r.elm_result = FinishedFalse THEN 6
    ELSE IF r.version = "V1" /\ r.elm_result = FinishedFalse THEN 7
    ELSE IF r.version = "V2" /\ r.elm_result = TimedOut THEN 8
    ELSE IF r.version = "V1" /\ r.elm_result = TimedOut THEN 9
    ELSE IF r.version = "V2" THEN 10
    ELSE 11

\* view: the key closure of done_list.sort_by_key; the first matching arm wins.
sort_key(r) ==
    IF r.version = "V2" /\ r.elm_result # r.lamdera_stable_no_wire_result THEN 0
    ELSE IF r.version = "V2" /\ r.elm_result # r.lamdera_next_no_wire_result THEN 1
    ELSE IF r.version = "V1" /\ r.elm_result # r.lamdera_stable_no_wire_result THEN 2
    ELSE IF r.version = "V2" /\ r.lamdera_stable_no_wire_result # r.lamdera_stable_result THEN 3
    ELSE IF r.version = "V2" /\ r.lamdera_next_no_wire_result # r.lamdera_next_result THEN 4
    ELSE IF r.version = "V1" /\ r.lamdera_stable_no_wire_result # r.lamdera_stable_result THEN 5
    ELSE IF r.version = "V2" /\ r.elm_result = TimedOut THEN 6
    ELSE IF r.version = "V1" /\ r.elm_result = TimedOut THEN 7
    ELSE IF r.version = "V2" /\ r.elm_result = FinishedFalse THEN 8
    ELSE IF r.version = "V1" /\ r.elm_result = FinishedFalse THEN 9
    ELSE IF r.version = "V2" THEN 10
    ELSE 11

\* Mutant of reverse: the list is left in storage order.
reverse_Identity(s) == s

\* Vec::reverse
reverse(s) == [i \in 1..Len(s) |-> s[Len(s) + 1 - i]]

\* Mutant of insert_by_key: d goes before the elements whose key equals its own.
insert_by_key_BeforeEqual(s, d) ==
    LET before == {i \in 1..Len(s) : sort_key(s[i].results) < sort_key(d.results)}
        n == Cardinality(before)
    IN  SubSeq(s, 1, n) \o <<d>> \o SubSeq(s, n + 1, Len(s))

\* One step of a stable sort: d goes after every element whose key is <= its own.
insert_by_key(s, d) ==
    LET before == {i \in 1..Len(s) : sort_key(s[i].results) <= sort_key(d.results)}
        n == Cardinality(before)
    IN  SubSeq(s, 1, n) \o <<d>> \o SubSeq(s, n + 1, Len(s))

\* Vec::sort_by_key: a stable sort by sort_key.
RECURSIVE sort_by_key(_)
sort_by_key(s) ==
    IF s = <<>> THEN <<>>
    ELSE insert_by_key(sort_by_key(SubSeq(s, 1, Len(s) - 1)), s[Len(s)])

\* view: done_list = dones.clone(); done_list.reverse(); done_list.sort_by_key(..)
done_list(ds) == sort_by_key(reverse(ds))

\* impl Display for RunResult
to_string(r) ==
    CASE r = FinishedTrue -> "pass-glyph"
      [] r = FinishedFalse -> "fail-glyph"
      [] OTHER -> "timeout-glyph"

\* export: the record written for one Done, <<>> when the entry is skipped.
export_record(done) ==
    LET r == done.results
    IN  IF /\ r.version = "V1"
           /\ r.elm_result = FinishedTrue
           /\ r.lamdera_stable_no_wire_result = FinishedTrue
           /\ r.lamdera_stable_result = FinishedTrue
          THEN <<>>
        ELSE IF r.version = "V1"
          THEN << <<done.path, "1", to_string(r.elm_result),
                    to_string(r.lamdera_stable_no_wire_result),
                    to_string(r.lamdera_stable_result), "", "">> >>
        ELSE << <<done.path, "1", to_string(r.elm_result),
                  to_string(r.lamdera_stable_no_wire_result),
                  to_string(r.lamdera_stable_result),
                  to_string(r.lamdera_next_no_wire_result),
                  to_string(r.lamdera_next_result)>> >>

\* export: the records written after the header, in storage order.
RECURSIVE export_records(_)
export_records(ds) ==
    IF ds = <<>> THEN <<>>
    ELSE export_record(Head(ds)) \o export_records(Tail(ds))

\* Mutant of UiThreadReturn: an Err of ui_thread leaves the tui closure at
\* once (ui_thread(..)? before ratatui::restore()).
UiThreadReturn_ErrSkipsRestore(res) ==
    /\ tui_res' = res
    /\ tui_pc' = IF res = "err" THEN "done" ELSE "restore"

\* ui_thread returns res; the tui closure then runs ratatui::restore().
UiThreadReturn(res) ==
    /\ tui_res' = res
    /\ tui_pc' = "restore"

\* tui: color_eyre::install()?  (on Err the closure returns before ui_thread)
TuiInstall ==
    /\ tui_pc = "install"
    /\ \E installed \in BOOLEAN :
         IF installed
           THEN /\ tui_pc' = "init"
                /\ UNCHANGED tui_res
           ELSE /\ tui_pc' = "done"
                /\ tui_res' = "err"
    /\ UNCHANGED <<terminal, frame>>
    /\ UNCHANGED <<shared_vars, walker_vars, tester_vars, main_vars, history_vars, component_vars>>

\* ui_thread: let mut terminal = ratatui::init()
TuiInit ==
    /\ tui_pc = "init"
    /\ terminal' = "tui"
    /\ tui_pc' = "check"
    /\ UNCHANGED <<tui_res, frame>>
    /\ UNCHANGED <<shared_vars, walker_vars, tester_vars, main_vars, history_vars, component_vars>>

\* ui_thread: if *stopping.lock() { return Ok(()) }
TuiCheck ==
    /\ tui_pc = "check"
    /\ IF stopping
         THEN UiThreadReturn("ok")
         ELSE /\ tui_pc' = "draw"
              /\ UNCHANGED tui_res
    /\ UNCHANGED <<terminal, frame>>
    /\ UNCHANGED <<shared_vars, walker_vars, tester_vars, main_vars, history_vars, component_vars>>

\* view: let in_progress = in_progress.lock()
ViewLockInProgress ==
    /\ tui_pc = "draw"
    /\ holder["in_progress"] = "none"
    /\ holder' = [holder EXCEPT !["in_progress"] = "tui"]
    /\ tui_pc' = "view_dones"
    /\ UNCHANGED <<tui_res, terminal, frame>>
    /\ UNCHANGED <<stopping, queue, sender_open, in_progress, dones>>
    /\ UNCHANGED <<walker_vars, tester_vars, main_vars, history_vars, component_vars>>

\* view: let dones = dones.lock()
ViewLockDones ==
    /\ tui_pc = "view_dones"
    /\ holder["dones"] = "none"
    /\ holder' = [holder EXCEPT !["dones"] = "tui"]
    /\ tui_pc' = "render"
    /\ UNCHANGED <<tui_res, terminal, frame>>
    /\ UNCHANGED <<stopping, queue, sender_open, in_progress, dones>>
    /\ UNCHANGED <<walker_vars, tester_vars, main_vars, history_vars, component_vars>>

\* Mutant of ViewRender: the guarded list itself is reversed and sorted.
ViewRender_SortInPlace ==
    /\ tui_pc = "render"
    /\ frame' = done_list(dones)
    /\ dones' = done_list(dones)
    /\ holder' = [m \in {"in_progress", "dones"} |-> "none"]
    /\ \E drawn \in BOOLEAN :
         IF drawn
           THEN /\ tui_pc' = "poll"
                /\ UNCHANGED tui_res
           ELSE /\ tui_res' = "err"
                /\ tui_pc' = "restore"
    /\ UNCHANGED terminal
    /\ UNCHANGED <<stopping, queue, sender_open, in_progress>>
    /\ UNCHANGED <<walker_vars, tester_vars, main_vars, history_vars, component_vars>>

\* Mutant of ViewRender: the guard of in_progress outlives view.
ViewRender_KeepInProgressGuard ==
    /\ tui_pc = "render"
    /\ frame' = done_list(dones)
    /\ dones' = dones
    /\ holder' = [holder EXCEPT !["dones"] = "none"]
    /\ \E drawn \in BOOLEAN :
         IF drawn
           THEN /\ tui_pc' = "poll"
                /\ UNCHANGED tui_res
           ELSE UiThreadReturn("err")
    /\ UNCHANGED terminal
    /\ UNCHANGED <<stopping, queue, sender_open, in_progress>>
    /\ UNCHANGED <<walker_vars, tester_vars, main_vars, history_vars, component_vars>>

\* view: done_list is a sorted clone of dones and is what the done table
\* shows; render the widgets, drop both guards at the end of view;
\* terminal.draw(..)? then returns Ok or an io::Error.
ViewRender ==
    /\ tui_pc = "render"
    /\ frame' = done_list(dones)
    /\ dones' = dones
    /\ holder' = [m \in {"in_progress", "dones"} |-> "none"]
    /\ \E drawn \in BOOLEAN :
         IF drawn
           THEN /\ tui_pc' = "poll"
                /\ UNCHANGED tui_res
           ELSE UiThreadReturn("err")
    /\ UNCHANGED terminal
    /\ UNCHANGED <<stopping, queue, sender_open, in_progress>>
    /\ UNCHANGED <<walker_vars, tester_vars, main_vars, history_vars, component_vars>>

\* ui_thread: if let Ok(available) = event::poll(..) { if !available { continue } }
\* match event::read()? { 'e' => export(dones)?, 'q' => return Ok(()), _ => {} }
\* poll times out (continue), or an event is read, or read returns Err.
TuiEvent ==
    /\ tui_pc = "poll"
    /\ \E event \in {"timeout", "q", "e", "other", "err"} :
         CASE event = "q" -> UiThreadReturn("ok")
           [] event = "err" -> UiThreadReturn("err")
           [] event = "e" -> tui_pc' = "export" /\ UNCHANGED tui_res
           [] OTHER -> tui_pc' = "check" /\ UNCHANGED tui_res
    /\ UNCHANGED <<terminal, frame>>
    /\ UNCHANGED <<shared_vars, walker_vars, tester_vars, main_vars, history_vars, component_vars>>

\* export: lock dones, create export.csv, write the header and
\* export_records(dones); the guard is dropped when export returns.  Any of
\* the writes can fail.
export ==
    /\ tui_pc = "export"
    /\ holder["dones"] = "none"
    /\ \E written \in BOOLEAN :
         IF written
           THEN /\ tui_pc' = "check"
                /\ UNCHANGED tui_res
           ELSE UiThreadReturn("err")
    /\ dones' = dones
    /\ UNCHANGED <<terminal, frame>>
    /\ UNCHANGED <<stopping, queue, sender_open, in_progress, holder>>
    /\ UNCHANGED <<walker_vars, tester_vars, main_vars, history_vars, component_vars>>

\* tui: ratatui::restore(); res
\* Restoring leaves the alternate screen: the dashboard's tables are gone.
TuiRestore ==
    /\ tui_pc = "restore"
    /\ terminal' = "restored"
    /\ frame' = <<>>
    /\ tui_pc' = "done"
    /\ UNCHANGED tui_res
    /\ UNCHANGED <<shared_vars, walker_vars, tester_vars, main_vars, history_vars, component_vars>>

Tui ==
    \/ TuiInstall
    \/ TuiInit
    \/ TuiCheck
    \/ ViewLockInProgress
    \/ ViewLockDones
    \/ ViewRender
    \/ TuiEvent
    \/ export
    \/ TuiRestore

\* -------------------------------------------------------------- top level
\* The closure of thread::scope returns res; the scope then joins every
\* thread that has not been joined yet.
MainReturn(res) ==
    /\ main_res' = res
    /\ main_pc' = "scope_exit"

\* Mutant of MainJoinTui: the top level goes on to set the flag without
\* waiting for the dashboard thread.
MainJoinTui_NoWait ==
    /\ main_pc = "join_tui"
    /\ main_pc' = "set_stopping"
    /\ UNCHANGED <<joined, main_res, console>>
    /\ UNCHANGED <<shared_vars, walker_vars, tester_vars, tui_vars, history_vars, component_vars>>

\* main: let res = tui.join()
MainJoinTui ==
    /\ main_pc = "join_tui"
    /\ tui_pc = "done"
    /\ main_pc' = "set_stopping"
    /\ UNCHANGED <<joined, main_res, console>>
    /\ UNCHANGED <<shared_vars, walker_vars, tester_vars, tui_vars, history_vars, component_vars>>

\* main: *stopping.lock() = true
MainSetStopping ==
    /\ main_pc = "set_stopping"
    /\ stopping' = TRUE
    /\ main_pc' = "check_tui"
    /\ UNCHANGED <<joined, main_res, console>>
    /\ UNCHANGED <<queue, sender_open, in_progress, dones, holder>>
    /\ UNCHANGED <<walker_vars, tester_vars, tui_vars, history_vars, component_vars>>

\* main: res.unwrap()?; println!("Waiting for directory walker to exit.")
MainCheckTui ==
    /\ main_pc = "check_tui"
    /\ IF tui_res = "err"
         THEN /\ MainReturn("err")
              /\ UNCHANGED console
         ELSE /\ console' = Append(console, "Waiting for directory walker to exit.")
              /\ main_pc' = "join_walker"
              /\ UNCHANGED main_res
    /\ UNCHANGED joined
    /\ UNCHANGED <<shared_vars, walker_vars, tester_vars, tui_vars, history_vars, component_vars>>

\* main: walker.join().unwrap()?; println!("Waiting for testers to exit.")
MainJoinWalker ==
    /\ main_pc = "join_walker"
    /\ walker_pc = "done"
    /\ IF walker_res = "err"
         THEN /\ MainReturn("err")
              /\ UNCHANGED console
         ELSE /\ console' = Append(console, "Waiting for testers to exit.")
              /\ main_pc' = "join_testers"
              /\ UNCHANGED main_res
    /\ UNCHANGED joined
    /\ UNCHANGED <<shared_vars, walker_vars, tester_vars, tui_vars, history_vars, component_vars>>

\* Mutant of MainJoinTester: the result of a joined tester is dropped.
MainJoinTester_IgnoreResult ==
    /\ main_pc = "join_testers"
    /\ pc[joined + 1] = "done"
    /\ joined' = joined + 1
    /\ IF joined + 1 = CONCURRENCY
         THEN MainReturn("ok")
         ELSE UNCHANGED <<main_pc, main_res>>
    /\ UNCHANGED console
    /\ UNCHANGED <<shared_vars, walker_vars, tester_vars, tui_vars, history_vars, component_vars>>

\* main: for tester in testers { tester.join().unwrap()?; }  Ok(())
MainJoinTester ==
    /\ main_pc = "join_testers"
    /\ pc[joined + 1] = "done"
    /\ joined' = joined + 1
    /\ IF tester_res[joined + 1] = "err"
         THEN MainReturn("err")
         ELSE IF joined + 1 = CONCURRENCY
           THEN MainReturn("ok")
           ELSE UNCHANGED <<main_pc, main_res>>
    /\ UNCHANGED console
    /\ UNCHANGED <<shared_vars, walker_vars, tester_vars, tui_vars, history_vars, component_vars>>

\* Mutant of MainScopeExit: the flag is cleared once every thread is joined.
MainScopeExit_ClearFlag ==
    /\ main_pc = "scope_exit"
    /\ tui_pc = "done"
    /\ walker_pc = "done"
    /\ \A w \in Testers : pc[w] = "done"
    /\ main_pc' = "returned"
    /\ stopping' = FALSE
    /\ UNCHANGED <<joined, main_res, console>>
    /\ UNCHANGED <<queue, sender_open, in_progress, dones, holder>>
    /\ UNCHANGED <<walker_vars, tester_vars, tui_vars, history_vars, component_vars>>

\* thread::scope returns once every spawned thread has finished.
MainScopeExit ==
    /\ main_pc = "scope_exit"
    /\ tui_pc = "done"
    /\ walker_pc = "done"
    /\ \A w \in Testers : pc[w] = "done"
    /\ main_pc' = "returned"
    /\ UNCHANGED <<joined, main_res, console>>
    /\ UNCHANGED <<shared_vars, walker_vars, tester_vars, tui_vars, history_vars, component_vars>>

Main ==
    \/ MainJoinTui
    \/ MainSetStopping
    \/ MainCheckTui
    \/ MainJoinWalker
    \/ MainJoinTester
    \/ MainScopeExit

\* ---------------------------------------------------------- specification
Next ==
    \/ Walker
    \/ \E w \in Testers : Tester(w)
    \/ Tui
    \/ Main

Spec == Init /\ [][Next]_vars

\* Every thread that can run eventually does; the user and the terminal are
\* under no obligation (the dashboard may keep polling forever).
FairSpec ==
    /\ Spec
    /\ WF_vars(Walker)
    /\ \A w \in Testers : WF_vars(Tester(w))
    /\ WF_vars(Tui)
    /\ WF_vars(Main)

TypeOK ==
    /\ stopping \in BOOLEAN
    /\ sender_open \in BOOLEAN
    /\ in_progress \subseteq Dirs
    /\ \A i \in 1..Len(queue) : queue[i] \in Dirs
    /\ walker_pc \in {"poll", "visit", "done"}
    /\ \A w \in Testers : pc[w] \in {"check", "recv", "insert", "run", "remove", "push", "done"}
    /\ terminal \in {"initial", "tui", "restored"}
    /\ main_res \in {"none", "ok", "err"}

\* ------------------------------------------- check_tests_for, step by step
\* RunnerSpec follows one call of check_tests_for through its system calls:
\* the content of elm.json and the state of the elm-stuff cache are drawn
\* at the start, the fate of every call on the filesystem and on a child
\* process is drawn when the call is made.

\* The compilers a call runs, in the order of the struct literal.
Compilers(version) ==
    IF version = "V1"
      THEN <<"elm", "lamdera_stable_no_wire", "lamdera_stable">>
      ELSE <<"elm", "lamdera_stable_no_wire", "lamdera_stable",
             "lamdera_next_no_wire", "lamdera_next">>

\* What the runner specification leaves alone.
outside_runner == <<engine_vars, walk_vars, table_vars>>

RunnerInit ==
    /\ EngineInit
    /\ WalkIdle
    /\ TableIdle
    /\ runner_pc = "read_manifest"
    /\ elm_json_content \in {"V1", "V2", "unreadable"}
    /\ elm_stuff \in BOOLEAN
    /\ variant = 0
    /\ children = <<>>
    /\ outcomes = <<>>
    /\ runner_res = "none"

\* check_tests_for returns (a `?` propagates an Err, or the final Ok).
RunnerReturn(res) ==
    /\ runner_pc' = "done"
    /\ runner_res' = res

\* fs::read_to_string(elm_json)? and the detection of the elm-test version.
RunnerReadManifest ==
    /\ runner_pc = "read_manifest"
    /\ IF elm_json_content = "unreadable"
         THEN RunnerReturn("err") /\ UNCHANGED variant
         ELSE /\ runner_pc' = "clean"
              /\ variant' = 1
              /\ UNCHANGED runner_res
    /\ UNCHANGED <<elm_json_content, elm_stuff, children, outcomes>>
    /\ UNCHANGED outside_runner

\* Mutant of RunnerClean: the cache is cleared before the first variant only.
RunnerClean_FirstVariantOnly ==
    /\ runner_pc = "clean"
    /\ IF elm_stuff /\ variant = 1
         THEN \E removed \in BOOLEAN :
                IF removed
                  THEN elm_stuff' = FALSE /\ runner_pc' = "spawn" /\ UNCHANGED runner_res
                  ELSE RunnerReturn("err") /\ UNCHANGED elm_stuff
         ELSE runner_pc' = "spawn" /\ UNCHANGED <<elm_stuff, runner_res>>
    /\ UNCHANGED <<elm_json_content, variant, children, outcomes>>
    /\ UNCHANGED outside_runner

\* if elm_stuff.exists() { fs::remove_dir_all(..)?; }
RunnerClean ==
    /\ runner_pc = "clean"
    /\ IF elm_stuff
         THEN \E removed \in BOOLEAN :
                IF removed
                  THEN elm_stuff' = FALSE /\ runner_pc' = "spawn" /\ UNCHANGED runner_res
                  ELSE RunnerReturn("err") /\ UNCHANGED elm_stuff
         ELSE runner_pc' = "spawn" /\ UNCHANGED <<elm_stuff, runner_res>>
    /\ UNCHANGED <<elm_json_content, variant, children, outcomes>>
    /\ UNCHANGED outside_runner

\* base_command.args(["--compiler", compiler]) ... .spawn()?
RunnerSpawn ==
    /\ runner_pc = "spawn"
    /\ \E spawned \in BOOLEAN :
         IF spawned
           THEN /\ children' = Append(children,
                                      [compiler |-> Compilers(elm_json_content)[variant],
                                       cache_at_spawn |-> elm_stuff,
                                       state |-> "running",
                                       killed |-> FALSE])
                /\ runner_pc' = "wait"
                /\ UNCHANGED runner_res
           ELSE RunnerReturn("err") /\ UNCHANGED children
    /\ UNCHANGED <<elm_json_content, elm_stuff, variant, outcomes>>
    /\ UNCHANGED outside_runner

\* The child of the current variant changes state.
SetChild(state, killed) ==
    children' = [children EXCEPT ![Len(children)] =
                    [@ EXCEPT !.state = state, !.killed = killed]]

\* run_tests_with returns Ok(r); the next variant follows, or the RunResults
\* value is built and returned.
RunnerOutcome(r) ==
    /\ outcomes' = Append(outcomes, r)
    /\ IF variant < NumVariants(elm_json_content)
         THEN /\ variant' = variant + 1
              /\ runner_pc' = "clean"
              /\ UNCHANGED runner_res
         ELSE RunnerReturn("ok") /\ UNCHANGED variant

\* elm_child.wait_timeout(timeout)?: Some(status) when the child exited in
\* time (it is reaped), None when it is still running, or an Err.  While it
\* ran, the child may have built the elm-stuff cache.
RunnerWaitTimeout ==
    /\ runner_pc = "wait"
    /\ \E status \in {"success", "failure", "none", "err"}, cache \in BOOLEAN :
         /\ elm_stuff' = (elm_stuff \/ cache)
         /\ CASE status = "success" ->
                   SetChild("reaped", FALSE) /\ RunnerOutcome(FinishedTrue)
              [] status = "failure" ->
                   SetChild("reaped", FALSE) /\ RunnerOutcome(FinishedFalse)
              [] status = "none" ->
                   /\ runner_pc' = "kill"
                   /\ UNCHANGED <<children, outcomes, variant, runner_res>>
              [] OTHER ->
                   RunnerReturn("err") /\ UNCHANGED <<children, outcomes, variant>>
    /\ UNCHANGED elm_json_content
    /\ UNCHANGED outside_runner

\* elm_child.kill()?
RunnerKill ==
    /\ runner_pc = "kill"
    /\ \E killed \in BOOLEAN :
         IF killed
           THEN SetChild("terminated", TRUE) /\ runner_pc' = "reap" /\ UNCHANGED runner_res
           ELSE RunnerReturn("err") /\ UNCHANGED children
    /\ UNCHANGED <<elm_json_content, elm_stuff, variant, outcomes>>
    /\ UNCHANGED outside_runner

\* elm_child.wait()?; Ok(RunResult::TimedOut)
RunnerWait ==
    /\ runner_pc = "reap"
    /\ \E reaped \in BOOLEAN :
         IF reaped
           THEN SetChild("reaped", TRUE) /\ RunnerOutcome(TimedOut)
           ELSE RunnerReturn("err") /\ UNCHANGED <<children, outcomes, variant>>
    /\ UNCHANGED <<elm_json_content, elm_stuff>>
    /\ UNCHANGED outside_runner

RunnerNext ==
    \/ RunnerReadManifest
    \/ RunnerClean
    \/ RunnerSpawn
    \/ RunnerWaitTimeout
    \/ RunnerKill
    \/ RunnerWait

RunnerSpec == RunnerInit /\ [][RunnerNext]_vars

\* ------------------------------------------------ walk_path, over a tree
\* WalkSpec follows walk_path through a three-level tree repos/author/
\* package/version.  The tree is drawn at the start: how the NumDirs version
\* directories are grouped into packages and authors, and what each holds.

\* What a version directory slot holds; "absent" leaves its package with one
\* entry less (possibly none).
EntryKinds == {"both", "tests_only", "manifest_only", "neither", "absent"}

\* How slot d (d > 1) follows slot d - 1 in the tree.
Layouts == [Dirs \ {1} -> {"same_package", "new_package", "new_author"}]

Max(S) == CHOOSE x \in S : \A y \in S : y <= x

AuthorOf(layout, d) == 1 + Cardinality({k \in 2..d : layout[k] = "new_author"})

PackageOf(layout, d) ==
    LET first == Max({1} \cup {k \in 2..d : layout[k] = "new_author"})
    IN  1 + Cardinality({k \in (first + 1)..d : layout[k] = "new_package"})

VersionOf(layout, d) ==
    LET first == Max({1} \cup {k \in 2..d : layout[k] # "same_package"})
    IN  d - first + 1

\* The trees walk_path is run on.
Trees ==
    { [d \in Dirs |->
         [path |-> <<AuthorOf(tree[1], d), PackageOf(tree[1], d), VersionOf(tree[1], d)>>,
          kind |-> tree[2][d]]] :
      tree \in Layouts \X [Dirs -> EntryKinds] }

\* The entries fs::read_dir lists for a directory, in no particular order.
\* Author and package directories exist for every slot; a version directory
\* exists unless its slot is absent.
fs_read_dir(path) ==
    LET under == {d \in Dirs : SubSeq(repos[d].path, 1, Len(path)) = path}
    IN  IF Len(path) = 2
          THEN {repos[d].path : d \in {e \in under : repos[e].kind # "absent"}}
          ELSE {SubSeq(repos[d].path, 1, Len(path) + 1) : d \in under}

\* entries.sort(): paths with a common parent, ordered by their last component.
RECURSIVE sort(_)
sort(entries) ==
    IF entries = {} THEN <<>>
    ELSE LET least == CHOOSE x \in entries :
                          \A y \in entries : x[Len(x)] <= y[Len(y)]
         IN  <<least>> \o sort(entries \ {least})

\* read_dir: the sorted entries of a directory (when fs::read_dir succeeds).
read_dir(path) == sort(fs_read_dir(path))

KindOf(path) ==
    LET d == CHOOSE e \in Dirs : repos[e].path = path
    IN  repos[d].kind

\* version_root.join("tests").exists()
tests_exists(path) == KindOf(path) \in {"both", "tests_only"}

\* version_root.join("elm.json").exists()
elm_json_exists(path) == KindOf(path) \in {"both", "manifest_only"}

\* What the walk leaves alone.
outside_walk == <<in_progress, dones, holder, walker_next, tester_vars, tui_vars,
                  main_vars, recv_count, io_failed, runner_vars, table_vars>>

WalkInit ==
    /\ EngineInit
    /\ RunnerIdle
    /\ TableIdle
    /\ repos \in Trees
    /\ walk_pc = "repos"
    /\ author_roots = <<>>
    /\ package_roots = <<>>
    /\ version_roots = <<>>

\* walk_path returns (and the walker thread drops paths_sender).
WalkReturn(res) ==
    /\ WalkerReturn(res)
    /\ walk_pc' = "done"

\* for author_root in read_dir(&repos)?
WalkRepos ==
    /\ walk_pc = "repos"
    /\ \E listed \in BOOLEAN :
         IF listed
           THEN /\ author_roots' = read_dir(<<>>)
                /\ walk_pc' = "author"
                /\ UNCHANGED <<walker_pc, walker_res, sender_open>>
           ELSE WalkReturn("err") /\ UNCHANGED author_roots
    /\ UNCHANGED <<repos, package_roots, version_roots, stopping, queue, sent>>
    /\ UNCHANGED outside_walk

\* The outer loop takes its next author_root, or ends: Ok(()).
\* for package_root in read_dir(&author_root)?
WalkAuthor ==
    /\ walk_pc = "author"
    /\ IF author_roots = <<>>
         THEN WalkReturn("ok") /\ UNCHANGED <<author_roots, package_roots>>
         ELSE \E listed \in BOOLEAN :
                IF listed
                  THEN /\ package_roots' = read_dir(Head(author_roots))
                       /\ author_roots' = Tail(author_roots)
                       /\ walk_pc' = "package"
                       /\ UNCHANGED <<walker_pc, walker_res, sender_open>>
                  ELSE WalkReturn("err") /\ UNCHANGED <<author_roots, package_roots>>
    /\ UNCHANGED <<repos, version_roots, stopping, queue, sent>>
    /\ UNCHANGED outside_walk

\* The middle loop takes its next package_root, or ends.
\* for version_root in read_dir(&package_root)?
WalkPackage ==
    /\ walk_pc = "package"
    /\ IF package_roots = <<>>
         THEN /\ walk_pc' = "author"
              /\ UNCHANGED <<package_roots, version_roots, walker_pc, walker_res, sender_open>>
         ELSE \E listed \in BOOLEAN :
                IF listed
                  THEN /\ version_roots' = read_dir(Head(package_roots))
                       /\ package_roots' = Tail(package_roots)
                       /\ walk_pc' = "version"
                       /\ UNCHANGED <<walker_pc, walker_res, sender_open>>
                  ELSE WalkReturn("err") /\ UNCHANGED <<package_roots, version_roots>>
    /\ UNCHANGED <<repos, author_roots, stopping, queue, sent>>
    /\ UNCHANGED outside_walk

\* The inner loop takes its next version_root, or ends; the body starts with
\* the poll of stopping.
WalkPoll ==
    /\ walk_pc = "version"
    /\ IF version_roots = <<>>
         THEN walk_pc' = "package" /\ UNCHANGED <<walker_pc, walker_res, sender_open>>
         ELSE IF stopping
                THEN WalkReturn("ok")
                ELSE walk_pc' = "exists" /\ UNCHANGED <<walker_pc, walker_res, sender_open>>
    /\ UNCHANGED <<repos, author_roots, package_roots, version_roots, stopping, queue, sent>>
    /\ UNCHANGED outside_walk

\* Mutant of WalkVisit: a directory qualifies when it has tests or elm.json.
WalkVisit_EitherEntry ==
    /\ walk_pc = "exists"
    /\ LET version_root_ == Head(version_roots)
       IN  IF tests_exists(version_root_) \/ elm_json_exists(version_root_)
             THEN /\ queue' = Append(queue, version_root_)
                  /\ sent' = Append(sent, version_root_)
             ELSE UNCHANGED <<queue, sent>>
    /\ version_roots' = Tail(version_roots)
    /\ walk_pc' = "version"
    /\ UNCHANGED <<repos, author_roots, package_roots, stopping, walker_pc, walker_res,
                   sender_open>>
    /\ UNCHANGED outside_walk

\* if tests.exists() && elm_json.exists() { paths_sender.send(version_root)?; }
WalkVisit ==
    /\ walk_pc = "exists"
    /\ LET version_root_ == Head(version_roots)
       IN  IF tests_exists(version_root_) /\ elm_json_exists(version_root_)
             THEN /\ queue' = Append(queue, version_root_)
                  /\ sent' = Append(sent, version_root_)
             ELSE UNCHANGED <<queue, sent>>
    /\ version_roots' = Tail(version_roots)
    /\ walk_pc' = "version"
    /\ UNCHANGED <<repos, author_roots, package_roots, stopping, walker_pc, walker_res,
                   sender_open>>
    /\ UNCHANGED outside_walk

\* The top level requests shutdown while the walk is under way.
WalkStopping ==
    /\ ~stopping
    /\ stopping' = TRUE
    /\ UNCHANGED <<walk_vars, queue, sent, walker_pc, walker_res, sender_open>>
    /\ UNCHANGED outside_walk

WalkNext ==
    \/ WalkRepos
    \/ WalkAuthor
    \/ WalkPackage
    \/ WalkPoll
    \/ WalkVisit
    \/ WalkStopping

WalkSpec == WalkInit /\ [][WalkNext]_vars

\* ------------------------------------- the done table: sort and export
\* TableSpec applies the dashboard's reverse and sort, and export, to a list
\* of completed entries drawn at the start.

\* Longest list of completed entries TableSpec draws.
MaxDones == 2

\* A RunResult different from v.
Other(v) ==
    CASE v = FinishedTrue -> TimedOut
      [] v = FinishedFalse -> FinishedTrue
      [] OTHER -> FinishedFalse

\* RunResults::V1 values: every reference outcome; each fork outcome agrees
\* with the outcome it is compared with, or differs from it.
V1Results ==
    { r \in [version : {"V1"}, elm_result : RunResult,
             lamdera_stable_no_wire_result : RunResult,
             lamdera_stable_result : RunResult] :
        /\ r.lamdera_stable_no_wire_result \in {r.elm_result, Other(r.elm_result)}
        /\ r.lamdera_stable_result \in {r.lamdera_stable_no_wire_result,
                                         Other(r.lamdera_stable_no_wire_result)} }

\* RunResults::V2 values, drawn in the same way.
V2Results ==
    { r \in [version : {"V2"}, elm_result : RunResult,
             lamdera_stable_no_wire_result : RunResult,
             lamdera_stable_result : RunResult,
             lamdera_next_no_wire_result : RunResult,
             lamdera_next_result : RunResult] :
        /\ r.lamdera_stable_no_wire_result \in {r.elm_result, Other(r.elm_result)}
        /\ r.lamdera_next_no_wire_result \in {r.elm_result, Other(r.elm_result)}
        /\ r.lamdera_stable_result \in {r.lamdera_stable_no_wire_result,
                                         Other(r.lamdera_stable_no_wire_result)}
        /\ r.lamdera_next_result \in {r.lamdera_next_no_wire_result,
                                       Other(r.lamdera_next_no_wire_result)} }

\* The lists of Done values TableSpec starts from: entry i is the i-th
\* target completed.
DoneLists ==
    { [i \in DOMAIN rs |-> [path |-> i, results |-> rs[i]]] :
      rs \in UNION {[1..n -> V1Results \cup V2Results] : n \in 0..MaxDones} }

\* What the table specification leaves alone.
outside_table == <<engine_vars, runner_vars, walk_vars>>

TableInit ==
    /\ EngineInit
    /\ RunnerIdle
    /\ WalkIdle
    /\ table_dones \in DoneLists
    /\ table_list = table_dones
    /\ table_pc = "cloned"
    /\ table_csv = [written |-> FALSE, records |-> <<>>]

\* view: done_list.reverse()
TableReverse ==
    /\ table_pc = "cloned"
    /\ table_list' = reverse(table_list)
    /\ table_pc' = "reversed"
    /\ UNCHANGED <<table_dones, table_csv>>
    /\ UNCHANGED outside_table

\* view: done_list.sort_by_key(..); applied once more to its own result.
TableSort ==
    /\ table_pc \in {"reversed", "sorted"}
    /\ table_list' = sort_by_key(table_list)
    /\ table_pc' = IF table_pc = "reversed" THEN "sorted" ELSE "resorted"
    /\ UNCHANGED <<table_dones, table_csv>>
    /\ UNCHANGED outside_table

\* export: the records written to export.csv after the header.
TableExport ==
    /\ ~table_csv.written
    /\ table_csv' = [written |-> TRUE, records |-> export_records(table_dones)]
    /\ UNCHANGED <<table_dones, table_list, table_pc>>
    /\ UNCHANGED outside_table

TableNext ==
    \/ TableReverse
    \/ TableSort
    \/ TableExport

TableSpec == TableInit /\ [][TableNext]_vars

\* ----------------------------------------------------------------- claims
Count(s, t) == Cardinality({i \in 1..Len(s) : s[i] = t})

DoneCount(t) == Cardinality({i \in 1..Len(dones) : dones[i].path = t})

\* Tester w holds a target it has received and not yet recorded or given up.
InHand(w) == pc[w] \in {"insert", "run", "remove", "push"}

AllTerminated ==
    /\ walker_pc = "done"
    /\ tui_pc = "done"
    /\ \A w \in Testers : pc[w] = "done"

\* C1 as stated: with no fatal runner error and no shutdown request, once the
\* walker has finished (here: without an error of its own) and the queue and
\* the in-progress map are both empty, every target the walker sent is in
\* dones exactly once.
C1_ExactlyOnceWhenQueueAndMapEmpty ==
    (/\ io_failed = {}
     /\ ~stopping
     /\ walker_pc = "done"
     /\ walker_res = "ok"
     /\ queue = <<>>
     /\ in_progress = {})
    => \A t \in Dirs : DoneCount(t) = Count(sent, t)

\* C1 amended: with no fatal runner error, once the walker has finished, the
\* queue and the in-progress map are both empty and no tester holds a target
\* it has received and not yet appended, every target the walker sent is in
\* dones exactly once, and nothing else is.
C1_ExactlyOnceWhenDrained ==
    (/\ io_failed = {}
     /\ walker_pc = "done"
     /\ queue = <<>>
     /\ in_progress = {}
     /\ \A w \in Testers : ~InHand(w))
    => \A t \in Dirs : /\ DoneCount(t) = Count(sent, t)
                       /\ DoneCount(t) <= 1

\* C1 witness: three targets went through two testers and the run has drained.
C1_Witness ==
    /\ io_failed = {}
    /\ ~stopping
    /\ walker_pc = "done"
    /\ queue = <<>>
    /\ in_progress = {}
    /\ \A w \in Testers : ~InHand(w)
    /\ Len(sent) = NumDirs
    /\ Len(dones) = NumDirs
    /\ CONCURRENCY < NumDirs

\* C2: every target the walker sent is either still in the channel or has been
\* received exactly once; no target is received twice and no two testers hold
\* the same target.
C2_ReceivedByExactlyOneTester ==
    \A t \in Dirs :
        /\ recv_count[t] <= 1
        /\ Count(sent, t) = Count(queue, t) + recv_count[t]
        /\ Cardinality({w \in Testers : InHand(w) /\ version_root[w] = t}) <= 1

\* C2 witness: two testers have each just received a target from the channel.
C2_Witness ==
    /\ \A w \in Testers : pc[w] = "insert"
    /\ \E t \in Dirs : recv_count[t] = 1 /\ version_root[1] = t
    /\ version_root[1] # version_root[2]

\* C3 as stated: once a tester's runner call has failed, the shutdown flag
\* eventually becomes true and every thread eventually terminates, whatever
\* the user does.
C3_TesterFailureLeadsToShutdown ==
    (\E w \in Testers : tester_res[w] = "err") ~> (stopping /\ AllTerminated)

\* C4: once the shutdown flag is set, the walker, every tester and the
\* dashboard eventually terminate, also when targets are pending in the
\* channel and testers are inside a runner call.
C4_ShutdownDrains == stopping ~> AllTerminated

\* C4 witness: the flag is set while targets are pending, a tester is inside
\* check_tests_for and the walker is still walking.
C4_Witness ==
    /\ stopping
    /\ queue # <<>>
    /\ \E w \in Testers : pc[w] = "run"
    /\ walker_pc # "done"

\* C5: the shutdown flag starts false and never goes from true to false.
C5_StoppingMonotonic == ~stopping /\ [][stopping => stopping']_vars

\* C5 witness: the flag has been set and the program has run to its end.
C5_Witness == stopping /\ main_pc = "returned"

\* C6 as stated: the flag is true while the top level waits for the
\* dashboard, and the walker has exited when the top level waits for a tester.
C6_FlagThenDashboardThenWalkerThenTesters ==
    /\ main_pc = "join_tui" => stopping
    /\ main_pc = "join_testers" => walker_pc = "done"

\* C7: once ratatui::init has run, the terminal is restored before the
\* dashboard thread terminates, hence before the top level prints a line or
\* has an error to return.
C7_TerminalRestoredFirst ==
    terminal = "tui" =>
        /\ tui_pc # "done"
        /\ console = <<>>
        /\ main_res = "none"
        /\ main_pc = "join_tui"

\* C7 witness: the dashboard loop ended with an error after the terminal was
\* initialised, and the top level returns that error.
C7_Witness ==
    /\ terminal = "restored"
    /\ tui_res = "err"
    /\ main_res = "err"

\* C8 as stated: the in-progress map holds exactly the targets whose runner
\* call is executing.
C8_MapIsExactlyRunningTargets ==
    in_progress = {version_root[w] : w \in {x \in Testers : pc[x] = "run"}}

\* C8 amended: the in-progress map holds exactly the targets of the testers
\* between their insert and their remove: every target whose runner call is
\* executing and, besides those, only targets whose runner call has returned
\* and whose tester has not yet removed them; a tester that has propagated a
\* runner error has left nothing in the map.
C8_MapIsInsertedNotYetRemoved ==
    /\ in_progress = {version_root[w] : w \in {x \in Testers : pc[x] \in {"run", "remove"}}}
    /\ (\A w \in Testers : pc[w] = "done") => in_progress = {}

\* C8 witness: one tester has failed and left the map, another is inside its
\* runner call.
C8_Witness ==
    /\ \E w \in Testers : tester_res[w] = "err"
    /\ \E w \in Testers : pc[w] = "run" /\ in_progress = {version_root[w]}
    /\ io_failed # {}

\* C9: no step removes, changes or reorders an entry of dones: dones is
\* always a prefix of its next value.
C9_DonesAppendOnly ==
    [][/\ Len(dones) <= Len(dones')
       /\ \A i \in 1..Len(dones) : dones'[i] = dones[i]]_vars

\* C9 witness: the dashboard shows a frame whose order differs from the
\* storage order of the same entries, which dones still holds.
C9_Witness ==
    /\ Len(frame) >= 2
    /\ Len(frame) = Len(dones)
    /\ frame # dones
    /\ tui_pc = "poll"

\* The outcome a variant process that could be run produces.
Outcome(b) ==
    CASE b = "exit0" -> FinishedTrue
      [] b = "exit1" -> FinishedFalse
      [] b = "hang" -> TimedOut

\* The k-th field of a RunResults value, <<>> when the shape has none.
Field(r, k) ==
    CASE k = 1 -> r.elm_result
      [] k = 2 -> r.lamdera_stable_no_wire_result
      [] k = 3 -> r.lamdera_stable_result
      [] k = 4 -> r.lamdera_next_no_wire_result
      [] k = 5 -> r.lamdera_next_result

FieldNames(version) ==
    IF version = "V1"
      THEN {"version", "elm_result", "lamdera_stable_no_wire_result", "lamdera_stable_result"}
      ELSE {"version", "elm_result", "lamdera_stable_no_wire_result", "lamdera_stable_result",
            "lamdera_next_no_wire_result", "lamdera_next_result"}

\* C10: every entry of dones carries an outcome for each variant of its set
\* (3 for V1, 5 for V2), a hang being recorded as TimedOut; a target whose
\* runner call met an I/O failure gets an Err from the runner and no entry,
\* and a call that met none gets Ok.
C10_NoPartialResults ==
    /\ \A i \in 1..Len(dones) :
         LET d == dones[i]
             e == CorpusEnv(d.path)
         IN  /\ d.path \notin io_failed
             /\ d.results.version = e.manifest
             /\ DOMAIN d.results = FieldNames(d.results.version)
             /\ \A k \in 1..NumVariants(e.manifest) :
                    /\ Field(d.results, k) \in RunResult
                    /\ Field(d.results, k) = Outcome(e.procs[k])
    /\ \A w \in Testers :
         pc[w] \in {"remove", "push"} =>
             (results[w].ok <=> version_root[w] \notin io_failed)

\* C10 witness: a five-variant entry with a TimedOut outcome is published
\* while another target's call failed and its tester returned the error.
C10_Witness ==
    /\ \E i \in 1..Len(dones) :
         /\ dones[i].results.version = "V2"
         /\ dones[i].results.lamdera_next_no_wire_result = TimedOut
    /\ \E i \in 1..Len(dones) : dones[i].results.version = "V1"
    /\ io_failed # {}
    /\ \E w \in Testers : tester_res[w] = "err"


\* C11: a child still running at the timeout is killed, then waited for, and
\* only then is TimedOut the outcome; and whenever a variant has produced an
\* outcome, or the call has returned (so that the tester thread can
\* terminate), no child the call spawned is still running or unreaped.
C11_NoChildOutlivesItsRun ==
    /\ \A i \in 1..Len(outcomes) :
         /\ children[i].state = "reaped"
         /\ (outcomes[i] = TimedOut) = children[i].killed
    /\ runner_res # "none" =>
         \A i \in 1..Len(children) : children[i].state = "reaped"


\* The version directories of the tree that hold both tests and elm.json.
Qualifying == {repos[d].path : d \in {e \in Dirs : repos[e].kind = "both"}}

\* C12: when the walk of a three-level tree has completed without a
\* filesystem error and without a shutdown request, the targets sent are
\* exactly the version directories holding both elm.json and tests, each
\* sent once; the others were skipped without error.
C12_SentAreExactlyQualifying ==
    (walk_pc = "done" /\ walker_res = "ok" /\ ~stopping) =>
        /\ \A i \in 1..Len(sent) : sent[i] \in Qualifying
        /\ \A t \in Qualifying : Count(sent, t) = 1

\* A completed walk that sent two targets and skipped a directory without
\* tests, one without elm.json or one with neither.
C12_Witness ==
    /\ walk_pc = "done" /\ walker_res = "ok" /\ ~stopping
    /\ Len(sent) = 2
    /\ \E d \in Dirs : repos[d].kind \in {"tests_only", "manifest_only", "neither"}


\* C13: whenever the walker has returned (exhaustion, early return on
\* shutdown or filesystem error) the send side is closed; a tester receiving
\* on the closed channel still gets the head of the queue while there is
\* one; and a tester receiving on the closed empty channel is never blocked:
\* its receive can complete, and completes only with the tester returning Ok.
C13_EndOfStream ==
    /\ [](walker_pc = "done" => ~sender_open)
    /\ [](\A w \in Testers :
            (pc[w] = "recv" /\ ~sender_open /\ queue = <<>>) => ENABLED TesterRecv(w))
    /\ [][\A w \in Testers :
            (pc[w] = "recv" /\ ~sender_open /\ pc'[w] # "recv") =>
                IF queue # <<>>
                  THEN pc'[w] = "insert" /\ version_root'[w] = Head(queue)
                  ELSE pc'[w] = "done" /\ tester_res'[w] = "ok"]_vars

\* With no shutdown requested, the walker has returned after sending, a
\* queued target was completed and a tester has left on end-of-stream.
C13_Witness ==
    /\ walker_pc = "done" /\ ~stopping /\ queue = <<>>
    /\ Len(sent) >= 1 /\ Len(dones) >= 1
    /\ \E w \in Testers : pc[w] = "done" /\ tester_res[w] = "ok"


\* The priority class of a result set, 1 for (a) to 7 for (g): the first of
\*   (a) reference differs from stable no-wire,
\*   (b) reference differs from next no-wire (5-variant set only),
\*   (c) stable no-wire differs from stable,
\*   (d) next no-wire differs from next (5-variant set only),
\*   (e) reference timed out, (f) reference failed, (g) reference passed
\* that applies to it.
PriorityClass(r) ==
    IF r.elm_result # r.lamdera_stable_no_wire_result THEN 1
    ELSE IF r.version = "V2" /\ r.elm_result # r.lamdera_next_no_wire_result THEN 2
    ELSE IF r.lamdera_stable_no_wire_result # r.lamdera_stable_result THEN 3
    ELSE IF r.version = "V2" /\ r.lamdera_next_no_wire_result # r.lamdera_next_result THEN 4
    ELSE IF r.elm_result = TimedOut THEN 5
    ELSE IF r.elm_result = FinishedFalse THEN 6
    ELSE 7

\* The table view has sorted its list.
TableSorted == table_pc \in {"sorted", "resorted"}

PriorityGroup(r) ==
    CASE PriorityClass(r) \in {1, 2} -> 1
      [] PriorityClass(r) \in {3, 4} -> 2
      [] PriorityClass(r) = 5 -> 3
      [] PriorityClass(r) = 6 -> 4
      [] OTHER -> 5

\* The place of a result set inside its group: 5-variant sets first, (a)
\* before (b) and (c) before (d) among them, 3-variant sets last.
PlaceInGroup(r) ==
    IF r.version = "V1" THEN 2
    ELSE IF PriorityClass(r) \in {2, 4} THEN 1
    ELSE 0

C15_SortIdempotent ==
    [][(table_pc = "sorted" /\ table_pc' = "resorted") => table_list' = table_list]_vars

\* A list of two different result sets of one class has been sorted twice.
C15_Witness ==
    /\ table_pc = "resorted"
    /\ Len(table_list) = 2
    /\ sort_key(table_list[1].results) = sort_key(table_list[2].results)
    /\ table_list[1].results # table_list[2].results

\* Every variant of the result set is Finished(true).
AllPass(r) ==
    \A k \in 1..NumVariants(r.version) : Field(r, k) = FinishedTrue

\* C16: export writes exactly one row for a completed entry that is not a
\* unanimous pass and none for an entry whose variants all passed, for
\* 3-variant and 5-variant result sets alike.
C16_RowIffNotAllPass ==
    table_csv.written =>
        \A i \in 1..Len(table_dones) :
            Cardinality({k \in 1..Len(table_csv.records) :
                            table_csv.records[k][1] = table_dones[i].path})
              = IF AllPass(table_dones[i].results) THEN 0 ELSE 1


\* C17: when main has returned, every spawned thread has terminated and the
\* terminal is not left in dashboard mode; main returned Ok exactly when the
\* dashboard, the walker and every tester returned Ok, and an Err otherwise.
C17_ExitBehaviour ==
    main_pc = "returned" =>
        /\ AllTerminated
        /\ terminal # "tui"
        /\ main_res \in {"ok", "err"}
        /\ (main_res = "ok") =
             (/\ tui_res = "ok"
              /\ walker_res = "ok"
              /\ \A w \in Testers : tester_res[w] = "ok")

\* main has returned the Err of a tester after a normal quit of the
\* dashboard and a complete walk.
C17_Witness ==
    /\ main_pc = "returned"
    /\ main_res = "err"
    /\ tui_res = "ok"
    /\ walker_res = "ok"
    /\ terminal = "restored"
    /\ \E w \in Testers : tester_res[w] = "err"


\* C18: from the start until the shutdown flag is set or the queue is closed
\* and empty, the number of live tester threads is CONCURRENCY, also after
\* the runner call of some tester has failed.
C18_ExactlyConcurrencyLiveTesters ==
    (~stopping /\ (sender_open \/ queue # <<>>)) =>
        Cardinality({w \in Testers : pc[w] # "done"}) = CONCURRENCY

\* C19: the walker polls the flag before each version directory; a poll that
\* finds the flag set makes the walker return Ok without sending; so once the
\* flag is set only the directory whose poll came before the write can still
\* be sent: a send happens only from "visit", and "visit" is not entered again.
C19_WalkerStopsAtPoll ==
    /\ [][(WalkerPoll /\ stopping) =>
            (walker_pc' = "done" /\ walker_res' = "ok" /\ sent' = sent)]_vars
    /\ [][stopping =>
            /\ sent' # sent => (walker_pc = "visit" /\ Len(sent') = Len(sent) + 1)
            /\ walker_pc # "visit" => walker_pc' # "visit"]_vars

\* The flag is set and the walker, which had sent a target, has returned Ok
\* at a poll, leaving version directories unvisited.
C19_Witness ==
    /\ stopping
    /\ walker_pc = "done" /\ walker_res = "ok"
    /\ walker_next <= NumDirs
    /\ Len(sent) >= 1
    /\ tui_res = "ok"


\* C20: the variants are spawned in the fixed order elm, lamdera stable
\* no-wire, lamdera stable (then lamdera next no-wire, lamdera next for the
\* 5-variant set), one after the other, each at a moment when elm-stuff does
\* not exist; the call returns Ok only when every variant of the set has
\* produced an outcome, whatever the earlier outcomes were, and returns Err
\* only from a variant that has not produced its outcome.
C20_EveryVariantInOrderFromCleanCache ==
    /\ \A i \in 1..Len(children) :
         /\ children[i].compiler = Compilers(elm_json_content)[i]
         /\ ~children[i].cache_at_spawn
    /\ Len(children) \in {Len(outcomes), Len(outcomes) + 1}
    /\ Len(children) <= NumVariants(elm_json_content)
    /\ runner_res = "ok" => Len(outcomes) = NumVariants(elm_json_content)
    /\ (runner_res = "err" /\ variant > 0) => Len(outcomes) = variant - 1

\* A 5-variant call has returned Ok after a failure of the reference and a
\* timeout of the second variant.
C20_Witness ==
    /\ runner_res = "ok"
    /\ elm_json_content = "V2"
    /\ Len(children) = 5
    /\ outcomes[1] = FinishedFalse
    /\ outcomes[2] = TimedOut
    /\ outcomes[5] = FinishedTrue


\* The place of target t in the order of discovery (the walker's sends).
DiscoveryIndex(t) == CHOOSE i \in 1..Len(sent) : sent[i] = t

\* The place of target t in the order of completion (the pushes on dones).
CompletionIndex(t) == CHOOSE i \in 1..Len(dones) : dones[i].path = t

C22_LocksReleasedBeforeRender ==
    tui_pc = "render" =>
        /\ \A m \in {"in_progress", "dones"} : holder[m] = "none"
        /\ \A w \in Testers :
             pc[w] \in {"insert", "remove", "push"} => ENABLED Tester(w)


\* C23: the flag is true only once the top level has joined the dashboard
\* thread: "stopping" implies that the dashboard thread has terminated and
\* that the top level is past its write of the flag; so the dashboard never
\* finds the flag set at its own check, and a failed walker or tester does
\* not set the flag while the dashboard runs.
C23_FlagOnlyAfterDashboardJoined ==
    /\ stopping => (tui_pc = "done" /\ main_pc \notin {"join_tui", "set_stopping"})
    /\ tui_pc = "check" => ~stopping
    /\ (tui_pc # "done" /\ (walker_res = "err" \/ \E w \in Testers : tester_res[w] = "err"))
         => ~stopping

\* The flag is set after a quit of the dashboard, a tester having failed
\* before that while the dashboard was running.
C23_Witness ==
    /\ stopping
    /\ tui_pc = "done" /\ tui_res = "ok"
    /\ \E w \in Testers : tester_res[w] = "err"
    /\ Len(console) >= 1


\* Tester w is waiting for a lock: it is at a statement that locks
\* in_progress or dones and cannot execute it.
WaitsForLock(w) ==
    \/ pc[w] = "insert" /\ ~ENABLED TesterInsert(w)
    \/ pc[w] = "remove" /\ ~ENABLED TesterRemove(w)
    \/ pc[w] = "push" /\ results[w].ok /\ ~ENABLED TesterPush(w)

\* C24: lock acquisition cannot deadlock.  Only the dashboard holds a lock
\* from one step to the next, and it takes in_progress before dones; the
\* dashboard itself never waits for a lock (each of its locking statements
\* can execute whenever it is reached; at the render it holds both locks
\* and takes none), and whenever a tester waits for one the dashboard is
\* inside view, holding it and able to go on to the end of view, so no
\* thread waits for a lock in a cycle.
C24_NoLockCycle ==
    /\ \A m \in {"in_progress", "dones"} : holder[m] \in {"none", "tui"}
    /\ holder["dones"] = "tui" => holder["in_progress"] = "tui"
    /\ tui_pc = "draw" => ENABLED ViewLockInProgress
    /\ tui_pc = "view_dones" => ENABLED ViewLockDones
    /\ tui_pc = "render" => \A m \in {"in_progress", "dones"} : holder[m] = "tui"
    /\ tui_pc = "export" => ENABLED export
    /\ \A w \in Testers : WaitsForLock(w) => tui_pc \in {"view_dones", "render"}

\* A tester waits to push its result while the dashboard holds both locks.
C24_Witness ==
    /\ holder["in_progress"] = "tui" /\ holder["dones"] = "tui"
    /\ \E w \in Testers : pc[w] = "push" /\ results[w].ok /\ WaitsForLock(w)


\* C25: the in_progress map never has more than CONCURRENCY entries; no
\* target is at once in two of the pending queue, the in_progress map and
\* the dones list, nor twice in one of them; so the total the dashboard
\* sums never exceeds the number of targets the walker has sent.
C25_SummaryNeverOvercounts ==
    /\ Cardinality(in_progress) <= CONCURRENCY
    /\ \A t \in Dirs :
         Count(queue, t) + (IF t \in in_progress THEN 1 ELSE 0) + DoneCount(t) <= 1
    /\ Len(dones) + Cardinality(in_progress) + Len(queue) <= Len(sent)

\* Every tester has a target in the map while another target is pending or
\* completed, and the three places together hold every target sent.
C25_Witness ==
    /\ Cardinality(in_progress) = CONCURRENCY
    /\ Len(queue) + Len(dones) >= 1
    /\ Len(dones) + Cardinality(in_progress) + Len(queue) = Len(sent)


\* C26: a tester reads the flag only at the top of its loop.  A check that
\* finds the flag set makes the tester return Ok without receiving.  Once the
\* flag is set, recv is not entered again, so a tester takes from the channel
\* only if its check came before the write, and then at most once; a run in
\* flight goes through insert, check_tests_for and remove without being cut
\* short, and its results, when the call returned them, are appended to dones
\* before the tester goes back to the check (a call that returned Err makes
\* the tester return that Err).  When every tester has returned, the targets
\* left in the channel are never received.
C26_TesterStopsAtLoopTop ==
    /\ [][\A w \in Testers : (TesterCheck(w) /\ stopping) =>
            /\ pc'[w] = "done" /\ tester_res'[w] = "ok"
            /\ queue' = queue /\ recv_count' = recv_count]_vars
    /\ [][stopping => \A w \in Testers :
            /\ pc[w] # "recv" => pc'[w] # "recv"
            /\ pc[w] = "insert" => pc'[w] \in {"insert", "run"}
            /\ pc[w] = "run" => pc'[w] \in {"run", "remove"}
            /\ pc[w] = "remove" => pc'[w] \in {"remove", "push"}
            /\ (pc[w] = "push" /\ pc'[w] # "push") =>
                 IF results[w].ok
                   THEN /\ pc'[w] = "check"
                        /\ dones' = Append(dones, [path |-> version_root[w],
                                                   results |-> results[w].val])
                   ELSE pc'[w] = "done" /\ tester_res'[w] = "err"]_vars
    /\ [][recv_count' # recv_count =>
            \E w \in Testers : pc[w] = "recv" /\ pc'[w] = "insert"]_vars
    /\ [][(\A w \in Testers : pc[w] = "done") =>
            /\ recv_count' = recv_count
            /\ Len(queue') >= Len(queue)
            /\ \A i \in 1..Len(queue) : queue'[i] = queue[i]]_vars

\* The flag is set; one tester has returned Ok at its check while a target
\* was pending, and another, whose check came before the write, is inside
\* the run of a target it has received.
C26_Witness ==
    /\ stopping
    /\ queue # <<>>
    /\ \E w \in Testers : pc[w] = "done" /\ tester_res[w] = "ok"
    /\ \E w \in Testers : pc[w] = "run"


====
